---- MODULE Spec2Model ----
(***************************************************************************)
(* regression.py: a regression harness that runs eight `go run` commands,  *)
(* compares each child's trimmed stdout with a golden file under rdata/,   *)
(* prints one diagnostic per failing case and a final summary.             *)
(*                                                                         *)
(* Text (stdout, stderr, file content) is a sequence of one-character      *)
(* strings, so that str.strip() and the line structure of what print()     *)
(* writes are computed and not assumed.  The harness's standard output is  *)
(* the sequence of lines written to it.                                    *)
(***************************************************************************)
EXTENDS Integers, Sequences, FiniteSets, TLC

VARIABLES
    programs,   \* environment: case index -> what subprocess.run yields
    rdata,      \* environment: golden file name -> content, or Missing
    pc,         \* position of main(): "loop", "test", "done", "fault"
    idx,        \* position of the for loop (1-based index of the next case)
    total,      \* main's counter `total`
    ok,         \* main's counter `ok`
    reply,      \* test()'s local `reply` while a case is evaluated
    out,        \* lines written to the harness's stdout, in order
    spawned,    \* argv of every child process started, in order
    opened,     \* name of every file open() was called on, in order
    run,        \* which invocation of the harness this is (1 or 2)
    prev        \* stdout of the previous invocation

vars == <<programs, rdata, pc, idx, total, ok, reply, out, spawned, opened,
          run, prev>>

-----------------------------------------------------------------------------
(* Bounds of the environment *)

\* longest stdout / golden text drawn for the case under test
MaxLen == 2
\* at most this many cases deviate from the passing baseline in Spec
MaxFaulty == 3

\* characters of the drawn texts: one printing, one whitespace (a line break)
Chars == {"a", "\n"}
\* exit statuses drawn: success, failure, killed by a signal
RetCodes == {0, 1, -9}
\* stderr captures drawn: nothing, whitespace only, one line with and
\* without its line terminator
StderrVals == {<<>>, <<"\n">>, <<"a">>, <<"a", "\n">>}

Texts(n) == UNION {[1..k -> Chars] : k \in 0..n}

\* rdata entry of a file that does not exist
Missing == [exists |-> FALSE]
\* a file that exists, with its content
File(text) == [exists |-> TRUE, text |-> text]
\* subprocess.run raises instead of returning (the child cannot be started)
RunError == [raised |-> "FileNotFoundError"]
\* no child has been run, or its result is out of scope
NoReply == [raised |-> "none"]

-----------------------------------------------------------------------------
(* The program's data *)

\* regression.py:12-24
Cases ==
    << [cmd |-> <<"eg/eg1/eg1.go">>, expected |-> "eg1.txt"],
       [cmd |-> <<"eg/eg1/eg1.go", "-h">>, expected |-> "eg1.hlp"],
       [cmd |-> <<"eg/eg2/eg2.go">>, expected |-> "eg2.txt"],
       [cmd |-> <<"eg/eg2/eg2.go", "-h">>, expected |-> "eg2.hlp"],
       [cmd |-> <<"eg/subcommands/subcommands.go", "-h">>,
        expected |-> "subcommands.hlp"],
       [cmd |-> <<"eg/subcommands/subcommands.go", "-h", "c">>,
        expected |-> "subcommands-c.hlp"],
       [cmd |-> <<"eg/subcommands/subcommands.go", "-h", "l">>,
        expected |-> "subcommands-l.hlp"],
       [cmd |-> <<"eg/subcommands/subcommands.go", "-h", "f">>,
        expected |-> "subcommands-f.hlp"] >>

NumCases == Len(Cases)

\* regression.py:34
Argv(cmd) == <<"go", "run">> \o cmd

\* regression.py:45
Filename(expected) == "rdata/" \o expected

-----------------------------------------------------------------------------
(* Pure helpers *)

\* str.isspace() for one character, as str.strip() uses it
IsSpace(c) == c \in {" ", "\t", "\n", "\r", "\f"}

RECURSIVE LStrip(_)
LStrip(s) ==
    IF s = <<>> THEN s
    ELSE IF IsSpace(Head(s)) THEN LStrip(Tail(s)) ELSE s

RECURSIVE RStrip(_)
RStrip(s) ==
    IF s = <<>> THEN s
    ELSE IF IsSpace(s[Len(s)]) THEN RStrip(SubSeq(s, 1, Len(s) - 1)) ELSE s

\* str.strip(): leading and trailing whitespace removed
Strip(s) == RStrip(LStrip(s))

\* ' '.join(cmd), regression.py:37
RECURSIVE Join(_)
Join(words) ==
    IF words = <<>> THEN ""
    ELSE IF Len(words) = 1 THEN words[1]
    ELSE words[1] \o " " \o Join(Tail(words))

\* The lines print(text) writes: text followed by a line terminator, so
\* every line break inside text ends a line of its own.  text is a sequence
\* of pieces, each a string without a line break or the line break "\n".
RECURSIVE PrintLines(_)
PrintLines(text) ==
    IF text = <<>> THEN <<"">>
    ELSE LET rest == PrintLines(Tail(text))
         IN  IF Head(text) = "\n" THEN <<"">> \o rest
             ELSE <<Head(text) \o rest[1]>> \o Tail(rest)

-----------------------------------------------------------------------------
(* test(), regression.py:33-54, after subprocess.run has returned *)

\* regression.py:38
BadReturnCode(r) == r.returncode # 0

\* variant: stderr is trimmed before it is tested
HasStderrStripped(r) == Strip(r.stderr) # <<>>

\* regression.py:41
HasStderr(r) == r.stderr # <<>>

\* regression.py:46: open() raises FileNotFoundError
NotFound(files, filename) == ~files[filename].exists

\* regression.py:47
GoldenText(files, filename) == Strip(files[filename].text)

\* variant: stdout is compared as captured
StdoutDiffersRaw(r, text) == r.stdout # text

\* regression.py:48
StdoutDiffers(r, text) == Strip(r.stdout) # text

\* regression.py:39
BadReturnCodeMsg(cmd, r) ==
    <<"FAIL bad return code \"" \o cmd \o "\": " \o ToString(r.returncode)>>

\* regression.py:42
StderrMsg(cmd, r) == <<"FAIL stderr \"" \o cmd \o "\": ">> \o r.stderr

\* regression.py:49
MismatchMsg(filename) == <<"FAIL stdout != " \o filename>>

\* regression.py:53
MissingMsg(filename) == <<"FAIL missing: " \o filename>>

\* variant: no `return 0` after the stderr diagnostic, so the remaining
\* checks still run
TestNoReturnAfterStderr(argv, expected, r, files) ==
    LET cmd == Join(argv)
        filename == Filename(expected)
        first == IF HasStderr(r) THEN PrintLines(StderrMsg(cmd, r)) ELSE <<>>
    IN  IF BadReturnCode(r)
        THEN [ret |-> 0, printed |-> PrintLines(BadReturnCodeMsg(cmd, r)),
              opened |-> <<>>]
        ELSE IF NotFound(files, filename)
        THEN [ret |-> 0, printed |-> first \o PrintLines(MissingMsg(filename)),
              opened |-> <<filename>>]
        ELSE IF StdoutDiffers(r, GoldenText(files, filename))
        THEN [ret |-> 0, printed |-> first \o PrintLines(MismatchMsg(filename)),
              opened |-> <<filename>>]
        ELSE [ret |-> 1, printed |-> first, opened |-> <<filename>>]

\* variant: stderr is checked before the exit code
TestStderrFirst(argv, expected, r, files) ==
    LET cmd == Join(argv)
        filename == Filename(expected)
    IN  IF HasStderr(r)
        THEN [ret |-> 0, printed |-> PrintLines(StderrMsg(cmd, r)),
              opened |-> <<>>]
        ELSE IF BadReturnCode(r)
        THEN [ret |-> 0, printed |-> PrintLines(BadReturnCodeMsg(cmd, r)),
              opened |-> <<>>]
        ELSE IF NotFound(files, filename)
        THEN [ret |-> 0, printed |-> PrintLines(MissingMsg(filename)),
              opened |-> <<filename>>]
        ELSE IF StdoutDiffers(r, GoldenText(files, filename))
        THEN [ret |-> 0, printed |-> PrintLines(MismatchMsg(filename)),
              opened |-> <<filename>>]
        ELSE [ret |-> 1, printed |-> <<>>, opened |-> <<filename>>]

\* regression.py:37-54: the value returned, the lines printed and the files
\* open() was called on
Test(argv, expected, r, files) ==
    LET cmd == Join(argv)
        filename == Filename(expected)
    IN  IF BadReturnCode(r)
        THEN [ret |-> 0, printed |-> PrintLines(BadReturnCodeMsg(cmd, r)),
              opened |-> <<>>]
        ELSE IF HasStderr(r)
        THEN [ret |-> 0, printed |-> PrintLines(StderrMsg(cmd, r)),
              opened |-> <<>>]
        ELSE IF NotFound(files, filename)
        THEN [ret |-> 0, printed |-> PrintLines(MissingMsg(filename)),
              opened |-> <<filename>>]
        ELSE IF StdoutDiffers(r, GoldenText(files, filename))
        THEN [ret |-> 0, printed |-> PrintLines(MismatchMsg(filename)),
              opened |-> <<filename>>]
        ELSE [ret |-> 1, printed |-> <<>>, opened |-> <<filename>>]

-----------------------------------------------------------------------------
(* main(), regression.py:9-30 *)

\* variant: the two counters are printed in the other order
SummaryMsgSwapped(t, o) ==
    IF t # o
    THEN <<"FAIL " \o ToString(t) \o "/" \o ToString(o)>>
    ELSE <<"All " \o ToString(t) \o " OK">>

\* regression.py:27-30
SummaryMsg(t, o) ==
    IF t # o
    THEN <<"FAIL " \o ToString(o) \o "/" \o ToString(t)>>
    ELSE <<"All " \o ToString(t) \o " OK">>

\* variant: the case is not counted in total
LaunchUncounted ==
    /\ pc = "loop"
    /\ idx <= NumCases
    /\ spawned' = Append(spawned, Argv(Cases[idx].cmd))
    /\ IF programs[idx] = RunError
       THEN pc' = "fault" /\ UNCHANGED reply
       ELSE pc' = "test" /\ reply' = programs[idx]
    /\ UNCHANGED <<programs, rdata, idx, total, ok, out, opened, run, prev>>

\* variant: an error raised by subprocess.run is caught and the case is
\* counted as failed
LaunchRecovers ==
    /\ pc = "loop"
    /\ idx <= NumCases
    /\ total' = total + 1
    /\ spawned' = Append(spawned, Argv(Cases[idx].cmd))
    /\ IF programs[idx] = RunError
       THEN pc' = "loop" /\ idx' = idx + 1 /\ UNCHANGED reply
       ELSE pc' = "test" /\ reply' = programs[idx] /\ UNCHANGED idx
    /\ UNCHANGED <<programs, rdata, ok, out, opened, run, prev>>

\* regression.py:25 and 34-36: count the case and run its child to
\* completion; an error raised by subprocess.run is caught nowhere
Launch ==
    /\ pc = "loop"
    /\ idx <= NumCases
    /\ total' = total + 1
    /\ spawned' = Append(spawned, Argv(Cases[idx].cmd))
    /\ IF programs[idx] = RunError
       THEN pc' = "fault" /\ UNCHANGED reply
       ELSE pc' = "test" /\ reply' = programs[idx]
    /\ UNCHANGED <<programs, rdata, idx, ok, out, opened, run, prev>>

\* variant: the loop is left at the first failing case
EvaluateStopsOnFailure ==
    /\ pc = "test"
    /\ LET res == Test(Argv(Cases[idx].cmd), Cases[idx].expected, reply, rdata)
       IN  /\ out' = out \o res.printed
           /\ opened' = opened \o res.opened
           /\ ok' = ok + res.ret
           /\ idx' = IF res.ret = 0 THEN NumCases + 1 ELSE idx + 1
    /\ reply' = NoReply
    /\ pc' = "loop"
    /\ UNCHANGED <<programs, rdata, total, spawned, run, prev>>

\* variant: FileNotFoundError from open() is not caught
EvaluateMissingUncaught ==
    /\ pc = "test"
    /\ LET filename == Filename(Cases[idx].expected)
           res == Test(Argv(Cases[idx].cmd), Cases[idx].expected, reply, rdata)
       IN  IF ~BadReturnCode(reply) /\ ~HasStderr(reply)
              /\ NotFound(rdata, filename)
           THEN /\ opened' = Append(opened, filename)
                /\ pc' = "fault"
                /\ UNCHANGED <<out, ok, idx, reply>>
           ELSE /\ out' = out \o res.printed
                /\ opened' = opened \o res.opened
                /\ ok' = ok + res.ret
                /\ idx' = idx + 1
                /\ reply' = NoReply
                /\ pc' = "loop"
    /\ UNCHANGED <<programs, rdata, total, spawned, run, prev>>

\* regression.py:37-54 and 26: the checks of test(), then `ok +=` and the
\* loop's step to the next case
Evaluate ==
    /\ pc = "test"
    /\ LET res == Test(Argv(Cases[idx].cmd), Cases[idx].expected, reply, rdata)
       IN  /\ out' = out \o res.printed
           /\ opened' = opened \o res.opened
           /\ ok' = ok + res.ret
    /\ idx' = idx + 1
    /\ reply' = NoReply
    /\ pc' = "loop"
    /\ UNCHANGED <<programs, rdata, total, spawned, run, prev>>

\* regression.py:27-30
Report ==
    /\ pc = "loop"
    /\ idx > NumCases
    /\ out' = out \o PrintLines(SummaryMsg(total, ok))
    /\ pc' = "done"
    /\ UNCHANGED <<programs, rdata, idx, total, ok, reply, spawned, opened,
                   run, prev>>

\* variant: the counters outlive the invocation
RerunKeepsTally ==
    /\ pc \in {"done", "fault"}
    /\ run = 1
    /\ run' = 2
    /\ prev' = out
    /\ out' = <<>>
    /\ idx' = 1
    /\ reply' = NoReply
    /\ spawned' = <<>>
    /\ opened' = <<>>
    /\ pc' = "loop"
    /\ UNCHANGED <<programs, rdata, total, ok>>

\* The harness is started a second time in the unchanged environment:
\* regression.py:9-12 again, with a fresh stdout
Rerun ==
    /\ pc \in {"done", "fault"}
    /\ run = 1
    /\ run' = 2
    /\ prev' = out
    /\ out' = <<>>
    /\ total' = 0
    /\ ok' = 0
    /\ idx' = 1
    /\ reply' = NoReply
    /\ spawned' = <<>>
    /\ opened' = <<>>
    /\ pc' = "loop"
    /\ UNCHANGED <<programs, rdata>>

-----------------------------------------------------------------------------
(* Environments *)

Filenames == {Filename(Cases[i].expected) : i \in 1..NumCases}

\* what a child that could be started yields
Replies(codes, errs, outs) ==
    [returncode : codes, stderr : errs, stdout : outs]

\* the passing baseline: exit 0, silent stderr, stdout "a\n", golden "a"
PassReply == [returncode |-> 0, stderr |-> <<>>, stdout |-> <<"a", "\n">>]
PassGolden == File(<<"a">>)

\* per-case environments of Spec: the baseline, and each way one case can
\* end otherwise (no launch, bad exit code, stderr, no golden file, mismatch)
NarrowPrograms ==
    { RunError, PassReply,
      [PassReply EXCEPT !.returncode = 1],
      [PassReply EXCEPT !.stderr = <<"a", "\n">>] }
NarrowGolden == {Missing, PassGolden, File(<<"a", "a">>)}

\* per-case environments of SpecTest
WidePrograms ==
    {RunError} \cup Replies(RetCodes, StderrVals, Texts(MaxLen))
WideGolden == {Missing} \cup {File(t) : t \in Texts(MaxLen)}

\* the environment in which the cases of F behave as p and their golden files
\* are as g, and every other case passes
World(F, p, g) ==
    /\ programs = [i \in 1..NumCases |-> IF i \in F THEN p[i] ELSE PassReply]
    /\ rdata = [f \in Filenames |->
                  IF \E i \in F : f = Filename(Cases[i].expected)
                  THEN g[CHOOSE i \in F : f = Filename(Cases[i].expected)]
                  ELSE PassGolden]

\* regression.py:9-12: the state on entry to the loop
MainEntry ==
    /\ pc = "loop"
    /\ idx = 1
    /\ total = 0
    /\ ok = 0
    /\ reply = NoReply
    /\ out = <<>>
    /\ spawned = <<>>
    /\ opened = <<>>
    /\ run = 1
    /\ prev = <<>>

\* up to MaxFaulty cases deviate from the baseline, each in one narrow way
Init ==
    /\ \E F \in SUBSET (1..NumCases) :
          /\ Cardinality(F) <= MaxFaulty
          /\ \E p \in [F -> NarrowPrograms], g \in [F -> NarrowGolden] :
                /\ \A i \in F : p[i] = PassReply \/ g[i] = PassGolden
                /\ World(F, p, g)
    /\ MainEntry

\* one case under test has any wide environment, the others pass
InitTest ==
    /\ \E k \in 1..NumCases :
          \E p \in [{k} -> WidePrograms], g \in [{k} -> WideGolden] :
              World({k}, p, g)
    /\ MainEntry

Next == Launch \/ Evaluate \/ Report

NextTwice == Next \/ Rerun

Spec == Init /\ [][Next]_vars

SpecTest == InitTest /\ [][Next]_vars

SpecTwice == InitTest /\ [][NextTwice]_vars

-----------------------------------------------------------------------------
(* Vocabulary of the properties.  The texts the harness is expected to     *)
(* print are written out literally, not rebuilt with the model's helpers.  *)

Last(s) == s[Len(s)]

\* the command of each case as a diagnostic shows it
ShownCmd ==
    << "go run eg/eg1/eg1.go",
       "go run eg/eg1/eg1.go -h",
       "go run eg/eg2/eg2.go",
       "go run eg/eg2/eg2.go -h",
       "go run eg/subcommands/subcommands.go -h",
       "go run eg/subcommands/subcommands.go -h c",
       "go run eg/subcommands/subcommands.go -h l",
       "go run eg/subcommands/subcommands.go -h f" >>

\* the golden file of each case as a diagnostic shows it
ShownFile ==
    << "rdata/eg1.txt", "rdata/eg1.hlp", "rdata/eg2.txt", "rdata/eg2.hlp",
       "rdata/subcommands.hlp", "rdata/subcommands-c.hlp",
       "rdata/subcommands-l.hlp", "rdata/subcommands-f.hlp" >>

AllOkLine(t) == "All " \o ToString(t) \o " OK"
FailLine(o, t) == "FAIL " \o ToString(o) \o "/" \o ToString(t)
SummaryLines ==
    {AllOkLine(t) : t \in 0..NumCases}
        \cup {FailLine(o, t) : o \in 0..NumCases, t \in 0..NumCases}

BadCodeLine(i, rc) ==
    "FAIL bad return code \"" \o ShownCmd[i] \o "\": " \o ToString(rc)
StderrHead(i) == "FAIL stderr \"" \o ShownCmd[i] \o "\": "
MissingLine(i) == "FAIL missing: " \o ShownFile[i]
MismatchLine(i) == "FAIL stdout != " \o ShownFile[i]

\* the lines a diagnostic of case i can begin with
DiagHeads(i) ==
    {BadCodeLine(i, rc) : rc \in RetCodes \ {0}}
        \cup {StderrHead(i) \o seg : seg \in {"", "a"}}
        \cup {MissingLine(i), MismatchLine(i)}
AllDiagHeads == UNION {DiagHeads(i) : i \in 1..NumCases}

\* how many lines of o begin a diagnostic
NumDiagnostics(o) == Cardinality({j \in 1..Len(o) : o[j] \in AllDiagHeads})
\* how many line breaks text s holds
Breaks(s) == Cardinality({j \in 1..Len(s) : s[j] = "\n"})

Golden(i) == rdata[ShownFile[i]]
Launches(i) == programs[i] # RunError
\* case i's child exits 0, writes nothing to stderr, and its trimmed stdout
\* equals the trimmed content of its golden file
CasePasses(i) ==
    /\ Launches(i)
    /\ programs[i].returncode = 0
    /\ programs[i].stderr = <<>>
    /\ Golden(i).exists
    /\ Strip(programs[i].stdout) = Strip(Golden(i).text)

\* a step that evaluates the current case, and the lines it wrote
EvalStep == pc = "test" /\ pc' = "loop"
Printed == SubSeq(out', Len(out) + 1, Len(out'))

-----------------------------------------------------------------------------
(* C1 *)

\* C1: when main() ends without a fault, the last line printed is the only
\* summary line; it is `All {total} OK` exactly when ok = total and
\* `FAIL {ok}/{total}` otherwise; no summary line is printed before the end;
\* and when every case's child exits 0 with empty stderr and trimmed stdout
\* equal to the trimmed golden file, the whole output is `All 8 OK`.
C1_Summary ==
    /\ pc # "done" => \A j \in 1..Len(out) : out[j] \notin SummaryLines
    /\ pc = "done" =>
          /\ out # <<>>
          /\ {j \in 1..Len(out) : out[j] \in SummaryLines} = {Len(out)}
          /\ ok = total <=> Last(out) = AllOkLine(total)
          /\ ok # total <=> Last(out) = FailLine(ok, total)
          /\ (\A i \in 1..NumCases : CasePasses(i)) => out = <<"All 8 OK">>

C1_Witness ==
    /\ pc = "done"
    /\ \A i \in 1..NumCases : CasePasses(i)
    /\ out = <<"All 8 OK">>

-----------------------------------------------------------------------------
(* C2 *)

\* C2 as stated: every failing case adds exactly one line, so at the end the
\* output holds total - ok diagnostic lines and the summary line.
C2_OneLinePerFailure ==
    pc = "done" => Len(out) = (total - ok) + 1

\* C2 amended: a case that fails yields exactly one diagnostic (one print),
\* whose first line names the case and the cause, and a case that passes
\* yields none, so the diagnostics before the summary number total - ok; a
\* run with a failing case ends `FAIL {ok}/{total}` with ok < total.  The
\* diagnostic is one line except for the stderr diagnostic, which has one
\* more line for every line break in the captured stderr.
C2_OneDiagnosticPerFailure ==
    /\ [](pc \in {"loop", "done"} => NumDiagnostics(out) = total - ok)
    /\ [](pc = "done" /\ (\E i \in 1..NumCases : ~CasePasses(i)) =>
             ok < total /\ Last(out) = FailLine(ok, total))
    /\ [][EvalStep =>
            \/ ok' = ok + 1 /\ out' = out
            \/ /\ ok' = ok
               /\ Len(out') > Len(out)
               /\ SubSeq(out', 1, Len(out)) = out
               /\ Printed[1] \in DiagHeads(idx)
               /\ Len(Printed) =
                     1 + (IF reply.returncode = 0
                          THEN Breaks(reply.stderr) ELSE 0)]_vars

C2_Witness ==
    /\ pc = "done"
    /\ total - ok = 2
    /\ Len(out) = 4
    /\ Last(out) = "FAIL 6/8"

-----------------------------------------------------------------------------
(* C3 *)

\* C3: 0 <= ok <= total <= 8 in every state; both counters start at 0 and
\* never decrease; a case raises total by exactly 1 (when its child is
\* started) and ok by 0 or 1 (when it has been evaluated).
C3_Tally ==
    /\ total = 0 /\ ok = 0
    /\ [](0 <= ok /\ ok <= total /\ total <= 8)
    /\ [](total = IF pc \in {"test", "fault"} THEN idx ELSE idx - 1)
    /\ [][/\ total' \in {total, total + 1}
          /\ ok' \in {ok, ok + 1}
          /\ total' = total + 1 <=> pc = "loop" /\ pc' \in {"test", "fault"}
          /\ ok' = ok + 1 => EvalStep
          /\ idx' # idx => EvalStep /\ idx' = idx + 1]_vars

C3_Witness ==
    /\ pc = "done"
    /\ total = 8
    /\ ok = 6

-----------------------------------------------------------------------------
(* C4 *)

\* C4: whatever recoverable failures the cases have, the children started
\* are the cases' commands in declaration order, each once; a child is
\* started only when no earlier result awaits evaluation; a run that can
\* launch each child never stops before the summary, and when the summary is
\* printed all 8 cases have run and total = 8.
C4_EveryCaseOnce ==
    /\ [](/\ Len(spawned) <= NumCases
          /\ \A i \in 1..Len(spawned) :
                spawned[i] = <<"go", "run">> \o Cases[i].cmd
          /\ Len(spawned) = IF pc \in {"test", "fault"} THEN idx ELSE idx - 1
          /\ pc = "test" => reply = programs[idx]
          /\ pc = "done" => Len(spawned) = 8 /\ total = 8
          /\ pc \in {"loop", "test"} => ENABLED Next
          /\ pc = "fault" => programs[idx] = RunError)
    /\ [][Len(spawned') # Len(spawned) =>
            /\ pc = "loop"
            /\ reply = NoReply
            /\ Len(spawned') = Len(spawned) + 1]_vars

\* two cases fail, in different ways, and the run reaches its summary
C4_Witness ==
    /\ pc = "done"
    /\ Len(spawned) = 8
    /\ \E i, j \in 1..NumCases :
          /\ i # j
          /\ Launches(i) /\ programs[i].returncode # 0
          /\ Launches(j) /\ programs[j].returncode = 0
          /\ programs[j].stderr = <<>>
          /\ ~Golden(j).exists

-----------------------------------------------------------------------------
(* C5 *)

\* C5: a case whose child exits 0 with empty stderr and whose golden file
\* does not exist prints `FAIL missing: rdata/<expected>`, adds 0 to ok, and
\* the run goes on with the next case (or the summary): it never faults.
C5_MissingGolden ==
    /\ [][EvalStep /\ reply.returncode = 0 /\ reply.stderr = <<>>
                   /\ ~Golden(idx).exists =>
            /\ out' = Append(out, "FAIL missing: " \o ShownFile[idx])
            /\ ok' = ok
            /\ idx' = idx + 1]_vars
    /\ [](pc = "test" => ENABLED Next)
    /\ [](pc = "loop" => ENABLED Next)
    /\ [](pc = "fault" => ~Launches(idx))

C5_Witness ==
    /\ pc = "done"
    /\ Launches(3)
    /\ programs[3].returncode = 0
    /\ programs[3].stderr = <<>>
    /\ ~Golden(3).exists
    /\ out = <<"FAIL missing: rdata/eg2.txt", "FAIL 7/8">>

-----------------------------------------------------------------------------
(* C6 *)

\* C6: when a child cannot be launched the run ends there: total has counted
\* the case, ok and the output are as they were, no later case is started,
\* nothing more happens and no summary line is ever printed.
C6_LaunchFault ==
    /\ [][pc = "loop" /\ idx <= NumCases /\ ~Launches(idx) =>
            /\ pc' = "fault"
            /\ ok' = ok
            /\ out' = out
            /\ idx' = idx]_vars
    /\ [](pc = "fault" =>
            /\ ~ENABLED Next
            /\ Len(spawned) = idx
            /\ \A j \in 1..Len(out) : out[j] \notin SummaryLines)
    /\ [](\A i \in 1..NumCases :
             ~Launches(i) /\ (\A j \in 1..(i - 1) : Launches(j)) =>
                 pc # "done" /\ idx <= i)

C6_Witness ==
    /\ pc = "fault"
    /\ idx = 3
    /\ total = 3
    /\ ok = 1
    /\ Len(spawned) = 3

-----------------------------------------------------------------------------
(* C7 *)

\* C7: a case whose child exits 0 and wrote to stderr adds 0 to ok and
\* prints `FAIL stderr "<command>": <stderr>`, also when its trimmed stdout
\* equals the trimmed golden file.
C7_StderrFails ==
    [][EvalStep /\ reply.returncode = 0 /\ reply.stderr # <<>> =>
          /\ ok' = ok
          /\ out' = out \o PrintLines(<<StderrHead(idx)>> \o reply.stderr)]_vars

C7_Witness ==
    /\ pc = "loop"
    /\ idx = 2
    /\ programs[1].returncode = 0
    /\ programs[1].stderr = <<"\n">>
    /\ CasePasses(1) = FALSE
    /\ Golden(1).exists
    /\ Strip(programs[1].stdout) = Strip(Golden(1).text)
    /\ ok = 0
    /\ out = <<"FAIL stderr \"go run eg/eg1/eg1.go\": ", "">>

-----------------------------------------------------------------------------
(* C8 *)

\* what test() gives for the current case with stdout so and golden text g
Outcome(so, g) ==
    LET res == Test(Argv(Cases[idx].cmd), Cases[idx].expected,
                    [reply EXCEPT !.stdout = so],
                    [rdata EXCEPT ![ShownFile[idx]] = File(g)])
    IN  <<res.ret, res.printed>>

\* C8: for a case whose child exits 0 with empty stderr and whose golden
\* file exists, putting whitespace before or after the stdout or the golden
\* text changes neither the result nor what is printed; stdout "a\n" passes
\* against golden "a"; a line break inside one text only is a difference
\* that fails; and the case passes exactly when both texts are equal once
\* their leading and trailing whitespace is removed, printing
\* `FAIL stdout != rdata/<expected>` otherwise.
C8_TrimmedComparison ==
    /\ [](pc = "test" /\ reply.returncode = 0 /\ reply.stderr = <<>>
                      /\ Golden(idx).exists =>
            LET so == reply.stdout
                g == Golden(idx).text
            IN  /\ \A w \in {" ", "\n", "\t"} :
                      /\ Outcome(<<w>> \o so, g) = Outcome(so, g)
                      /\ Outcome(so \o <<w>>, g) = Outcome(so, g)
                      /\ Outcome(so, <<w>> \o g) = Outcome(so, g)
                      /\ Outcome(so, g \o <<w>>) = Outcome(so, g)
                /\ Outcome(<<"a", "\n">>, <<"a">>) = <<1, <<>>>>
                /\ Outcome(so \o <<"a", "a">>, g \o <<"a", "\n", "a">>)
                      = <<0, <<"FAIL stdout != " \o ShownFile[idx]>>>>)
    /\ [][EvalStep /\ reply.returncode = 0 /\ reply.stderr = <<>>
                   /\ Golden(idx).exists =>
            IF Strip(reply.stdout) = Strip(Golden(idx).text)
            THEN ok' = ok + 1 /\ out' = out
            ELSE /\ ok' = ok
                 /\ out' = Append(out, "FAIL stdout != " \o ShownFile[idx])]_vars

\* the case under test passed although stdout and golden text differ
C8_Witness ==
    /\ pc = "loop"
    /\ idx = 2
    /\ ok = 1
    /\ out = <<>>
    /\ programs[1].stdout = <<"a", "\n">>
    /\ Golden(1).text = <<"\n", "a">>

-----------------------------------------------------------------------------
(* C9 *)

-----------------------------------------------------------------------------
(* C10 *)

\* C10: the checks of a case run in the order exit code, stderr, golden file
\* present, stdout comparison, and stop at the first that fails: a non-zero
\* exit code is reported alone, whatever stderr and the golden file are;
\* with exit code 0, a non-empty stderr is reported alone, whatever the
\* golden file is; the golden file is opened exactly when the exit code is 0
\* and stderr is empty; and the case adds 1 to ok exactly when it passes all
\* four checks.
C10_CheckOrder ==
    [][EvalStep =>
          /\ reply.returncode # 0 =>
                out' = Append(out, BadCodeLine(idx, reply.returncode))
          /\ reply.returncode = 0 /\ reply.stderr # <<>> =>
                /\ Len(out') > Len(out)
                /\ SubSeq(out', 1, Len(out)) = out
                /\ \E seg \in {"", "a"} : Printed[1] = StderrHead(idx) \o seg
                /\ \A j \in 1..Len(Printed) :
                      Printed[j] \notin {MissingLine(idx), MismatchLine(idx)}
          /\ IF reply.returncode = 0 /\ reply.stderr = <<>>
             THEN opened' = Append(opened, ShownFile[idx])
             ELSE opened' = opened
          /\ ok' = ok + 1 <=> CasePasses(idx)
          /\ ok' = ok <=> ~CasePasses(idx)]_vars

\* the first case failed all of the first three checks at once
C10_Witness ==
    /\ pc = "loop"
    /\ idx = 2
    /\ programs[1].returncode = 1
    /\ programs[1].stderr # <<>>
    /\ ~Golden(1).exists
    /\ opened = <<>>
    /\ out = <<"FAIL bad return code \"go run eg/eg1/eg1.go\": 1">>

====
